---- MODULE Spec2Model ----
(***************************************************************************)
(* A model of secrets_manager: the keychain adapter (keychain.py), the     *)
(* HTTP API (server.py) and the command line (cli.py).                     *)
(*                                                                         *)
(* Text is modelled by TLA+ strings (Len, SubSeq and \o act on them).      *)
(* The macOS `security` tool and Python's subprocess.run are the external  *)
(* world: they are modelled by what they do to the keychain and by the     *)
(* return codes and exceptions they hand back.                             *)
(***************************************************************************)
EXTENDS Integers, Sequences, FiniteSets, TLC

(* ------------------------------ bounds -------------------------------- *)

\* store_in_keychain invocations in one run
MaxSets == 2
\* longest run of digits in a value
MaxCore == 5
\* KEY = "VALUE" matches in a credentials file
MaxFileEntries == 2
\* latest OS call of an operation that may go wrong
MaxFaultAt == 2

(* --------------------------- keychain.py ------------------------------ *)

SERVICE_NAME == "mcp-servers"

ORG_KEYS ==
  << "COMPANY_OWNER_SSN", "BANK_ACCT", "BANK_ROUTING", "COMPANY_NAME",
     "COMPANY_EIN", "COMPANY_ADDRESS", "COMPANY_OWNER" >>

\* a membership test that lets every key through
AcceptAnyKey(key) == TRUE

\* key in ORG_KEYS
InOrgKeys(key) == \E i \in 1..Len(ORG_KEYS) : ORG_KEYS[i] = key

\* Python's None (no text of the model spells it)
None == "<None>"

\* the character U+0000 (TLA+ strings have no escape for it)
NUL == "@"

Whitespace == {" ", "\n", "\t"}

RECURSIVE LStrip(_)
LStrip(s) ==
  IF Len(s) > 0 /\ SubSeq(s, 1, 1) \in Whitespace
  THEN LStrip(SubSeq(s, 2, Len(s)))
  ELSE s

RECURSIVE RStrip(_)
RStrip(s) ==
  IF Len(s) > 0 /\ SubSeq(s, Len(s), Len(s)) \in Whitespace
  THEN RStrip(SubSeq(s, 1, Len(s) - 1))
  ELSE s

\* str.strip()
Strip(s) == RStrip(LStrip(s))

\* sub in s, for two strings
Contains(s, sub) ==
  \E i \in 1..(Len(s) - Len(sub) + 1) : SubSeq(s, i, i + Len(sub) - 1) = sub

(* JSON values as json.loads returns them: t is the Python type, s the     *)
(* text of a scalar, f the members (name/value pairs of a dict, elements   *)
(* of a list).                                                             *)
JStr(s) == [t |-> "str", s |-> s, f |-> <<>>]
JNum(s) == [t |-> "num", s |-> s, f |-> <<>>]
JBool(s) == [t |-> "bool", s |-> s, f |-> <<>>]
JNull == [t |-> "null", s |-> "null", f |-> <<>>]
JList(elems) == [t |-> "list", s |-> "", f |-> elems]
JDict(pairs) == [t |-> "dict", s |-> "", f |-> pairs]

\* Python truth value: `not v` is ~Truthy(v)
Truthy(v) ==
  CASE v.t = "str" -> v.s # ""
    [] v.t = "num" -> v.s # "0"
    [] v.t = "bool" -> v.s = "true"
    [] v.t = "null" -> FALSE
    [] OTHER -> Len(v.f) > 0

(* A fault plan says which OS call of one operation goes wrong: the call   *)
(* number `at` ends with `kind`: "error" is a non-zero return code of the  *)
(* tool, "oserror" is subprocess.run failing to launch it (OSError).       *)
NoFault == [at |-> 0, kind |-> "ok"]

FaultPlans == {NoFault} \cup [at : 1..MaxFaultAt, kind : {"error", "oserror"}]

FaultAt(plan, i) == IF i = plan.at THEN plan.kind ELSE "ok"

(* subprocess.run before it launches anything: a non-str argument is a     *)
(* TypeError, an argument holding U+0000 a ValueError.                     *)
ArgError(arg) ==
  IF arg.t # "str" THEN "TypeError"
  ELSE IF Contains(arg.s, NUL) THEN "ValueError"
  ELSE ""

\* one record of the log of OS calls; rc -1: the tool was not launched
OsCall(cmd, service, account, password, rc) ==
  [cmd |-> cmd, service |-> service, account |-> account,
   password |-> password, rc |-> rc]

\* security find-generic-password -s service -a account -w
SecurityFind(st, account, fault) ==
  IF fault = "oserror" THEN [rc |-> -1, stdout |-> ""]
  ELSE IF fault = "error" THEN [rc |-> 1, stdout |-> ""]
  ELSE IF st[account] = None THEN [rc |-> 44, stdout |-> ""]
  ELSE [rc |-> 0, stdout |-> st[account] \o "\n"]

\* security delete-generic-password -s service -a account
SecurityDelete(st, account, fault) ==
  IF fault = "oserror" THEN [rc |-> -1, st |-> st]
  ELSE IF fault = "error" THEN [rc |-> 1, st |-> st]
  ELSE IF st[account] = None THEN [rc |-> 44, st |-> st]
  ELSE [rc |-> 0, st |-> [st EXCEPT ![account] = None]]

\* security add-generic-password -s service -a account -w password
SecurityAdd(st, account, password, fault) ==
  IF fault = "oserror" THEN [rc |-> -1, st |-> st]
  ELSE IF fault = "error" THEN [rc |-> 1, st |-> st]
  ELSE IF st[account] # None THEN [rc |-> 45, st |-> st]
  ELSE [rc |-> 0, st |-> [st EXCEPT ![account] = password]]

(* get_from_keychain: the value, or None; every exception is caught.       *)
(* w is the world so far: st the keychain, calls the OS calls made.        *)
get_from_keychain(w, service, account, plan) ==
  LET r == SecurityFind(w.st, account, FaultAt(plan, Len(w.calls) + 1))
      ret == IF r.rc = 0 THEN Strip(r.stdout) ELSE None
  IN  [st |-> w.st,
       calls |-> Append(w.calls, OsCall("find", service, account, None, r.rc)),
       gets |-> Append(w.gets, [account |-> account, rc |-> r.rc, ret |-> ret]),
       sets |-> w.sets,
       ret |-> ret]

(* store_in_keychain: delete (outcome ignored), then add (check=True).     *)
(* Only CalledProcessError is caught: exc names any other exception, which *)
(* reaches the caller.                                                     *)
store_in_keychain(w, service, account, password, plan) ==
  LET fd == FaultAt(plan, Len(w.calls) + 1)
      d == SecurityDelete(w.st, account, fd)
      c1 == Append(w.calls, OsCall("delete", service, account, None, d.rc))
      fa == FaultAt(plan, Len(c1) + 1)
      argerr == ArgError(password)
      a == SecurityAdd(d.st, account, password.s, fa)
      c2 == Append(c1, OsCall("add", service, account, password.s, a.rc))
      out ==
        IF d.rc = -1 THEN [st |-> d.st, calls |-> c1, ok |-> FALSE, exc |-> "OSError"]
        ELSE IF argerr # "" THEN [st |-> d.st, calls |-> c1, ok |-> FALSE, exc |-> argerr]
        ELSE IF a.rc = -1 THEN [st |-> a.st, calls |-> c2, ok |-> FALSE, exc |-> "OSError"]
        ELSE [st |-> a.st, calls |-> c2, ok |-> (a.rc = 0), exc |-> ""]
  IN  [st |-> out.st,
       calls |-> out.calls,
       gets |-> w.gets,
       sets |-> Append(w.sets,
                  [account |-> account, password |-> password,
                   from |-> Len(w.calls) + 1, to |-> Len(out.calls),
                   ok |-> out.ok, exc |-> out.exc]),
       ok |-> out.ok,
       exc |-> out.exc]

\* `if value:` for an Optional[str]
TruthyStr(value) == value # None /\ value # ""

(* get_organization_details: Get for every key of ORG_KEYS in order; keys  *)
(* whose value is falsy are left out. A dict is a sequence of <<key,       *)
(* value>> pairs in insertion order.                                       *)
RECURSIVE OrgDetailsFrom(_, _, _, _)
OrgDetailsFrom(w, i, details, plan) ==
  IF i > Len(ORG_KEYS) THEN [w |-> w, details |-> details]
  ELSE LET g == get_from_keychain(w, SERVICE_NAME, ORG_KEYS[i], plan)
       IN  OrgDetailsFrom(g, i + 1,
             IF TruthyStr(g.ret)
             THEN Append(details, <<ORG_KEYS[i], g.ret>>)
             ELSE details,
             plan)

get_organization_details(w, plan) == OrgDetailsFrom(w, 1, <<>>, plan)

\* get_specific_detail: None without touching the keychain for an unknown key
get_specific_detail(w, key, plan) ==
  IF ~InOrgKeys(key)
  THEN [st |-> w.st, calls |-> w.calls, gets |-> w.gets, sets |-> w.sets,
        ret |-> None]
  ELSE get_from_keychain(w, SERVICE_NAME, key, plan)

(* ----------------------------- masking -------------------------------- *)

SensitiveParts == {"SSN", "EIN", "BANK", "ACCT", "ROUTING"}

\* characters of a sensitive value that stay readable
MaskKeep == 4

RECURSIVE Stars(_)
Stars(n) == IF n <= 0 THEN "" ELSE "*" \o Stars(n - 1)

IsSensitive(key) == \E part \in SensitiveParts : Contains(key, part)

\* server.py: CredentialRequestHandler._mask_sensitive_value
_mask_sensitive_value(key, value) ==
  IF IsSensitive(key)
  THEN IF Len(value) > MaskKeep
       THEN Stars(Len(value) - MaskKeep)
              \o SubSeq(value, Len(value) - MaskKeep + 1, Len(value))
       ELSE Stars(Len(value))
  ELSE value

\* cli.py: mask_sensitive_value
mask_sensitive_value(key, value) ==
  IF IsSensitive(key)
  THEN IF Len(value) > MaskKeep
       THEN Stars(Len(value) - MaskKeep)
              \o SubSeq(value, Len(value) - MaskKeep + 1, Len(value))
       ELSE Stars(Len(value))
  ELSE value

(* ----------------------------- server.py ------------------------------ *)

\* a character outside ASCII, as a header decoded with iso-8859-1 can hold
EACUTE == "#"

\* the world record without a callee's result fields
World(w) == [st |-> w.st, calls |-> w.calls, gets |-> w.gets, sets |-> w.sets]

\* self.headers.get(name, default) for a header that may be missing
HeaderGet(header, default) == IF header = None THEN default ELSE header

StartsWith(s, prefix) ==
  Len(s) >= Len(prefix) /\ SubSeq(s, 1, Len(prefix)) = prefix

(* hmac.compare_digest on two str: equality, but a TypeError when either   *)
(* holds a non-ASCII character.                                            *)
compare_digest(a, b) ==
  IF Contains(a, EACUTE) \/ Contains(b, EACUTE)
  THEN [exc |-> "TypeError", val |-> FALSE]
  ELSE [exc |-> "", val |-> (a = b)]

\* _validate_api_key
_validate_api_key(api_key, headers) ==
  LET auth_header == HeaderGet(headers, "")
  IN  IF ~StartsWith(auth_header, "Bearer ")
      THEN [exc |-> "", val |-> FALSE]
      ELSE compare_digest(api_key, SubSeq(auth_header, 8, Len(auth_header)))

(* A response: status 0 with exc set means the handler raised and the      *)
(* connection was closed with nothing sent. The fields after ctype are the *)
(* members of the JSON body; None (or service = None for the list          *)
(* members) marks a member the body does not have.                         *)
Response(status, ctype) ==
  [status |-> status, exc |-> "", ctype |-> ctype,
   error |-> None, message |-> None, key |-> None, value |-> None,
   masked_value |-> None, service |-> None, credentials |-> <<>>,
   available_keys |-> <<>>]

\* _send_response_json: the JSON members are filled in by the caller
_send_response_json(status) == Response(status, "application/json")

\* _send_error_json
_send_error_json(error, status) ==
  [_send_response_json(status) EXCEPT !.error = error]

\* an exception leaves the handler: socketserver closes the connection
Raised(exc) == [Response(0, "") EXCEPT !.exc = exc]

(* A request body: kind "none" has no Content-Length (or 0), "badlen" a    *)
(* Content-Length that is no integer, "notutf8" bytes that do not decode,  *)
(* "badjson" text json.loads rejects, "json" text it parses to `json`.     *)
Body(kind, json) == [kind |-> kind, json |-> json]

\* _get_json_body
_get_json_body(body) ==
  CASE body.kind = "badlen" -> [exc |-> "ValueError", val |-> JNull]
    [] body.kind = "none" -> [exc |-> "", val |-> JDict(<<>>)]
    [] body.kind = "notutf8" -> [exc |-> "UnicodeDecodeError", val |-> JNull]
    [] body.kind = "badjson" -> [exc |-> "JSONDecodeError", val |-> JNull]
    [] OTHER -> [exc |-> "", val |-> body.json]

\* text before the first of the characters in `stops`
RECURSIVE Before(_, _)
Before(s, stops) ==
  IF Len(s) = 0 \/ SubSeq(s, 1, 1) \in stops THEN ""
  ELSE SubSeq(s, 1, 1) \o Before(SubSeq(s, 2, Len(s)), stops)

RECURSIVE LStripChar(_, _)
LStripChar(s, c) ==
  IF Len(s) > 0 /\ SubSeq(s, 1, 1) = c
  THEN LStripChar(SubSeq(s, 2, Len(s)), c)
  ELSE s

RECURSIVE RStripChar(_, _)
RStripChar(s, c) ==
  IF Len(s) > 0 /\ SubSeq(s, Len(s), Len(s)) = c
  THEN RStripChar(SubSeq(s, 1, Len(s) - 1), c)
  ELSE s

\* str.split(sep) for a one-character sep
RECURSIVE Split(_, _)
Split(s, sep) ==
  LET head == Before(s, {sep})
  IN  IF Len(head) = Len(s) THEN <<s>>
      ELSE <<head>> \o Split(SubSeq(s, Len(head) + 2, Len(s)), sep)

\* _parse_url: urlparse(self.path).path.strip("/").split("/")
_parse_url(path) ==
  Split(RStripChar(LStripChar(Before(path, {"?", "#"}), "/"), "/"), "/")

\* `"value" in body` and body["value"] for what json.loads returned
HasValue(body) ==
  CASE body.t = "dict" ->
         [exc |-> "", val |-> \E i \in 1..Len(body.f) : body.f[i][1] = "value"]
    [] body.t = "list" ->
         [exc |-> "", val |-> \E i \in 1..Len(body.f) : body.f[i] = JStr("value")]
    [] body.t = "str" -> [exc |-> "", val |-> Contains(body.s, "value")]
    [] OTHER -> [exc |-> "TypeError", val |-> FALSE]

ValueOf(body) ==
  IF body.t = "dict"
  THEN [exc |-> "",
        val |-> body.f[CHOOSE i \in 1..Len(body.f) :
                         /\ body.f[i][1] = "value"
                         /\ \A j \in (i + 1)..Len(body.f) : body.f[j][1] # "value"][2]]
  ELSE [exc |-> "TypeError", val |-> JNull]

\* the dict of masked values do_GET builds from details.items()
RECURSIVE MaskedDetails(_)
MaskedDetails(details) ==
  IF Len(details) = 0 THEN <<>>
  ELSE <<<<details[1][1], _mask_sensitive_value(details[1][1], details[1][2])>>>>
         \o MaskedDetails(Tail(details))

\* do_GET
do_GET(w, api_key, req, plan) ==
  LET valid == _validate_api_key(api_key, req.auth)
      path == _parse_url(req.path)
  IN  IF valid.exc # "" THEN [w |-> World(w), resp |-> Raised(valid.exc)]
      ELSE IF ~valid.val
      THEN [w |-> World(w), resp |-> _send_error_json("Invalid API key", 401)]
      ELSE IF Len(path) = 1 /\ path[1] = "credentials"
      THEN LET d == get_organization_details(w, plan)
           IN  [w |-> World(d.w),
                resp |-> [_send_response_json(200) EXCEPT
                            !.service = SERVICE_NAME,
                            !.credentials = MaskedDetails(d.details),
                            !.available_keys = ORG_KEYS]]
      ELSE IF Len(path) = 2 /\ path[1] = "credentials"
      THEN LET key == path[2]
               g == get_specific_detail(w, key, plan)
           IN  IF ~InOrgKeys(key)
               THEN [w |-> World(w),
                     resp |-> _send_error_json("Unknown key: " \o key, 404)]
               ELSE IF g.ret = None
               THEN [w |-> World(g),
                     resp |-> _send_error_json("No value found for key: " \o key, 404)]
               ELSE [w |-> World(g),
                     resp |-> [_send_response_json(200) EXCEPT
                                 !.key = key,
                                 !.value = g.ret,
                                 !.masked_value = _mask_sensitive_value(key, g.ret)]]
      ELSE [w |-> World(w), resp |-> _send_error_json("Unknown endpoint", 404)]

\* do_POST
do_POST(w, api_key, req, plan) ==
  LET valid == _validate_api_key(api_key, req.auth)
      path == _parse_url(req.path)
      key == path[2]
      body == _get_json_body(req.body)
      has == HasValue(body.val)
      value == ValueOf(body.val)
      s == store_in_keychain(w, SERVICE_NAME, key, value.val, plan)
  IN  IF valid.exc # "" THEN [w |-> World(w), resp |-> Raised(valid.exc)]
      ELSE IF ~valid.val
      THEN [w |-> World(w), resp |-> _send_error_json("Invalid API key", 401)]
      ELSE IF ~(Len(path) = 2 /\ path[1] = "credentials")
      THEN [w |-> World(w), resp |-> _send_error_json("Unknown endpoint", 404)]
      ELSE IF ~InOrgKeys(key)
      THEN [w |-> World(w), resp |-> _send_error_json("Unknown key: " \o key, 400)]
      ELSE IF body.exc = "JSONDecodeError"
      THEN [w |-> World(w), resp |-> _send_error_json("Invalid JSON body", 400)]
      ELSE IF body.exc # "" THEN [w |-> World(w), resp |-> Raised(body.exc)]
      ELSE IF has.exc # "" THEN [w |-> World(w), resp |-> Raised(has.exc)]
      ELSE IF ~has.val
      THEN [w |-> World(w),
            resp |-> _send_error_json("Missing required field: value", 400)]
      ELSE IF value.exc # "" THEN [w |-> World(w), resp |-> Raised(value.exc)]
      ELSE IF ~Truthy(value.val)
      THEN [w |-> World(w), resp |-> _send_error_json("Value cannot be empty", 400)]
      ELSE IF s.exc # "" THEN [w |-> World(s), resp |-> Raised(s.exc)]
      ELSE IF s.ok
      THEN [w |-> World(s),
            resp |-> [_send_response_json(200) EXCEPT
                        !.message = "Successfully stored " \o key \o " in Keychain",
                        !.key = key,
                        !.masked_value = _mask_sensitive_value(key, value.val.s)]]
      ELSE [w |-> World(s),
            resp |-> _send_error_json("Failed to store " \o key \o " in Keychain", 500)]

(* CredentialRequestHandler: BaseHTTPRequestHandler calls do_<METHOD>, and *)
(* answers 501 with its own HTML error page when the class has no such     *)
(* method; the class defines do_GET and do_POST only.                      *)
CredentialRequestHandler(w, api_key, req, plan) ==
  CASE req.method = "GET" -> do_GET(w, api_key, req, plan)
    [] req.method = "POST" -> do_POST(w, api_key, req, plan)
    [] OTHER ->
         [w |-> World(w),
          resp |-> [Response(501, "text/html") EXCEPT
                      !.error = "Unsupported method"]]

(* ------------------------------- cli.py ------------------------------- *)

CharAt(s, i) == IF i >= 1 /\ i <= Len(s) THEN SubSeq(s, i, i) ELSE ""

\* [A-Z_]
NameChars ==
  {"A", "B", "C", "D", "E", "F", "G", "H", "I", "J", "K", "L", "M", "N", "O",
   "P", "Q", "R", "S", "T", "U", "V", "W", "X", "Y", "Z", "_"}

\* \s
RegexSpace == {" ", "\t", "\n", "\r", "\f"}

\* the character class of the two quote characters
Quotes == {"\"", "'"}

\* length of the longest run of characters of `set` that starts at i
RECURSIVE Span(_, _, _)
Span(s, i, set) ==
  IF i <= Len(s) /\ SubSeq(s, i, i) \in set THEN 1 + Span(s, i + 1, set) ELSE 0

\* the same for characters outside `set`
RECURSIVE SpanNot(_, _, _)
SpanNot(s, i, set) ==
  IF i <= Len(s) /\ SubSeq(s, i, i) \notin set THEN 1 + SpanNot(s, i + 1, set) ELSE 0

(* The pattern of parse_credentials_file tried at position i: a name of    *)
(* NameChars, spaces, "=", spaces, a quote, characters that are no quote,  *)
(* a quote. Each repetition is followed by a character outside its class,  *)
(* so the greedy match is the only one.                                    *)
MatchAt(s, i) ==
  LET j1 == i + Span(s, i, NameChars)
      j2 == j1 + Span(s, j1, RegexSpace)
      j4 == (j2 + 1) + Span(s, j2 + 1, RegexSpace)
      j6 == (j4 + 1) + SpanNot(s, j4 + 1, Quotes)
  IN  IF /\ j1 > i
         /\ CharAt(s, j2) = "="
         /\ CharAt(s, j4) \in Quotes
         /\ CharAt(s, j6) \in Quotes
      THEN [ok |-> TRUE, key |-> SubSeq(s, i, j1 - 1),
            value |-> SubSeq(s, j4 + 1, j6 - 1), end |-> j6 + 1]
      ELSE [ok |-> FALSE, key |-> "", value |-> "", end |-> i + 1]

\* re.findall(pattern, content): the matches from left to right
RECURSIVE FindAll(_, _)
FindAll(s, i) ==
  IF i > Len(s) THEN <<>>
  ELSE LET m == MatchAt(s, i)
       IN  IF m.ok THEN << <<m.key, m.value>> >> \o FindAll(s, m.end)
           ELSE FindAll(s, i + 1)

\* d[key] = value for a dict kept as a sequence of pairs
DictSet(d, key, value) ==
  IF \E i \in 1..Len(d) : d[i][1] = key
  THEN [i \in 1..Len(d) |-> IF d[i][1] = key THEN <<key, value>> ELSE d[i]]
  ELSE Append(d, <<key, value>>)

RECURSIVE KeepOrgKeys(_, _)
KeepOrgKeys(matches, credentials) ==
  IF Len(matches) = 0 THEN credentials
  ELSE KeepOrgKeys(Tail(matches),
         IF InOrgKeys(matches[1][1])
         THEN DictSet(credentials, matches[1][1], matches[1][2])
         ELSE credentials)

(* parse_credentials_file: content is the text of the file, None when the  *)
(* file does not exist (then the process exits with 1).                    *)
parse_credentials_file(content) ==
  IF content = None THEN [exit |-> 1, credentials |-> <<>>]
  ELSE [exit |-> -1, credentials |-> KeepOrgKeys(FindAll(content, 1), <<>>)]

\* what a process leaves behind: exit code, uncaught exception, lines printed
Exit(code, printed) == [exit |-> code, exc |-> "", printed |-> printed]

\* an uncaught exception: the interpreter prints the traceback and exits 1
Uncaught(exc, printed) == [exit |-> 1, exc |-> exc, printed |-> printed]

\* list_credentials
RECURSIVE ListFrom(_, _, _, _)
ListFrom(w, i, printed, plan) ==
  IF i > Len(ORG_KEYS) THEN [w |-> World(w), printed |-> printed]
  ELSE LET g == get_from_keychain(w, SERVICE_NAME, ORG_KEYS[i], plan)
       IN  ListFrom(g, i + 1,
             IF g.ret = None THEN printed
             ELSE Append(printed,
                    ORG_KEYS[i] \o ": " \o mask_sensitive_value(ORG_KEYS[i], g.ret)),
             plan)

list_credentials(w, plan) ==
  LET l == ListFrom(w, 1, <<>>, plan)
  IN  [w |-> l.w,
       proc |-> Exit(0, IF Len(l.printed) = 0
                        THEN <<"No organization credentials found.">>
                        ELSE l.printed)]

(* store_credential: value is None when --value was not given, and then    *)
(* `typed` is what the operator enters at the prompt.                      *)
store_credential(w, key, value, typed, plan) ==
  LET v == IF value = None THEN typed ELSE value
      s == store_in_keychain(w, SERVICE_NAME, key, JStr(v), plan)
  IN  IF ~InOrgKeys(key)
      THEN [w |-> World(w), proc |-> Exit(1, <<"Error: Unknown key '" \o key \o "'">>)]
      ELSE IF v = ""
      THEN [w |-> World(w), proc |-> Exit(1, <<"Error: Value cannot be empty.">>)]
      ELSE IF s.exc # "" THEN [w |-> World(s), proc |-> Uncaught(s.exc, <<>>)]
      ELSE IF s.ok
      THEN [w |-> World(s),
            proc |-> Exit(0, <<"Successfully stored " \o key \o " in Keychain.">>)]
      ELSE [w |-> World(s),
            proc |-> Exit(1, <<"Failed to store " \o key \o " in Keychain.">>)]

\* str.lower() on what is typed at the confirmation prompt
RECURSIVE Lower(_)
Lower(s) ==
  IF Len(s) = 0 THEN ""
  ELSE (CASE SubSeq(s, 1, 1) = "Y" -> "y"
          [] SubSeq(s, 1, 1) = "N" -> "n"
          [] OTHER -> SubSeq(s, 1, 1)) \o Lower(SubSeq(s, 2, Len(s)))

\* the loop of store_credentials_from_file over credentials.items()
RECURSIVE StoreAll(_, _, _, _, _)
StoreAll(w, credentials, success, printed, plan) ==
  IF Len(credentials) = 0
  THEN [w |-> World(w), exc |-> "", success |-> success, printed |-> printed]
  ELSE LET key == credentials[1][1]
           s == store_in_keychain(w, SERVICE_NAME, key, JStr(credentials[1][2]), plan)
           p == Append(printed, "Storing " \o key \o "...")
       IN  IF s.exc # ""
           THEN [w |-> World(s), exc |-> s.exc, success |-> success, printed |-> p]
           ELSE IF s.ok
           THEN StoreAll(s, Tail(credentials), success, p, plan)
           ELSE StoreAll(s, Tail(credentials), FALSE,
                         Append(p, "Failed to store " \o key \o "."), plan)

\* the preview lines: "  - key: masked value"
RECURSIVE Preview(_)
Preview(credentials) ==
  IF Len(credentials) = 0 THEN <<>>
  ELSE <<"  - " \o credentials[1][1] \o ": "
           \o mask_sensitive_value(credentials[1][1], credentials[1][2])>>
         \o Preview(Tail(credentials))

\* store_credentials_from_file
store_credentials_from_file(w, content, yes, typed, plan) ==
  LET parsed == parse_credentials_file(content)
      credentials == parsed.credentials
      shown == Preview(credentials)
      r == StoreAll(w, credentials, TRUE, shown, plan)
  IN  IF parsed.exit # -1
      THEN [w |-> World(w), proc |-> Exit(parsed.exit, <<"Error: File does not exist.">>)]
      ELSE IF Len(credentials) = 0
      THEN [w |-> World(w),
            proc |-> Exit(1, <<"No valid credentials found in the file.">>)]
      ELSE IF ~yes /\ Lower(typed) # "y"
      THEN [w |-> World(w), proc |-> Exit(0, Append(shown, "Operation cancelled."))]
      ELSE IF r.exc # "" THEN [w |-> r.w, proc |-> Uncaught(r.exc, r.printed)]
      ELSE IF r.success
      THEN [w |-> r.w,
            proc |-> Exit(0, Append(r.printed,
                       "All credentials have been stored in the Keychain."))]
      ELSE [w |-> r.w,
            proc |-> Exit(0, Append(r.printed,
                       "Some credentials could not be stored."))]

(* main: argparse rejects a key outside choices=ORG_KEYS with exit code 2  *)
(* before any command runs.                                                *)
main(w, cmd, plan) ==
  LET g == get_specific_detail(w, cmd.key, plan)
  IN  CASE cmd.command = "list" -> list_credentials(w, plan)
        [] cmd.command = "store" ->
             IF ~InOrgKeys(cmd.key)
             THEN [w |-> World(w), proc |-> Exit(2, <<"error: argument key: invalid choice">>)]
             ELSE store_credential(w, cmd.key, cmd.value, cmd.typed, plan)
        [] cmd.command = "store-file" ->
             store_credentials_from_file(w, cmd.file, cmd.yes, cmd.typed, plan)
        [] cmd.command = "get" ->
             IF ~InOrgKeys(cmd.key)
             THEN [w |-> World(w), proc |-> Exit(2, <<"error: argument key: invalid choice">>)]
             ELSE IF TruthyStr(g.ret)
             THEN [w |-> World(g), proc |-> Exit(0, <<g.ret>>)]
             ELSE [w |-> World(g), proc |-> Exit(1, <<"No value found for " \o cmd.key>>)]
        [] OTHER -> [w |-> World(w), proc |-> Exit(0, <<"usage">>)]

(* ------------------------------ inputs -------------------------------- *)

OrgKeySet == {ORG_KEYS[i] : i \in 1..Len(ORG_KEYS)}

UnknownKeys == {"UNKNOWN_KEY"}

\* the accounts of SERVICE_NAME a call can name
Accounts == OrgKeySet \cup UnknownKeys

Digits == "123456789"

Core(j) == SubSeq(Digits, 1, j)

\* non-empty values without U+0000
Values == {" ", " 1 "} \cup {Core(j) : j \in MaskKeep..MaxCore}

\* a value holding U+0000
NulValue == "1" \o NUL \o "2"

\* the token the server was started with (--api-key)
ApiKeys == {"secret"}

AuthHeaders ==
  {None, "Basic secret", "Bearer wrong", "Bearer s" \o EACUTE \o "cret",
   "Bearer secret"}

NoBody == Body("none", JNull)

ValueBody(v) == Body("json", JDict(<< <<"value", v>> >>))

\* bodies {"value": <string>}
StringBodies == {ValueBody(JStr(v)) : v \in Values \cup {"", NulValue}}

OtherBodies ==
  { NoBody, Body("badlen", JNull), Body("notutf8", JNull), Body("badjson", JNull),
    Body("json", JDict(<<>>)),
    Body("json", JDict(<< <<"other", JStr("1")>> >>)),
    Body("json", JList(<<JNum("1"), JNum("2")>>)),
    Body("json", JList(<<JStr("value")>>)),
    Body("json", JStr("value")), Body("json", JStr("x")),
    Body("json", JNum("5")), Body("json", JNull),
    ValueBody(JNum("5")), ValueBody(JNum("0")), ValueBody(JNull),
    ValueBody(JBool("true")), ValueBody(JList(<<>>)),
    ValueBody(JList(<<JStr("1")>>)) }

KeyPaths == {"/credentials/" \o k : k \in Accounts}

OtherPaths ==
  {"/credentials", "/credentials/", "/credentials?x=1", "/credentials/BANK_ACCT/x",
   "/other", "/"}

Request(method, path, auth, body) ==
  [method |-> method, path |-> path, auth |-> auth, body |-> body]

NoRequest == Request("", "", None, NoBody)

\* requests that pass the token check and may reach the keychain
GetRequests ==
  {Request("GET", p, "Bearer secret", NoBody) : p \in KeyPaths \cup OtherPaths}

PostRequests ==
  {Request("POST", p, "Bearer secret", ValueBody(JStr(Core(MaxCore)))) :
     p \in KeyPaths}
  \cup {Request("POST", p, "Bearer secret", b) :
          p \in {"/credentials/BANK_ACCT", "/credentials/COMPANY_NAME"},
          b \in StringBodies}

\* requests with every kind of Authorization header
AuthRequests ==
  {Request("GET", p, a, NoBody) :
     p \in {"/credentials", "/credentials/BANK_ACCT", "/other"},
     a \in AuthHeaders}
  \cup {Request("POST", p, a, ValueBody(JStr(Core(MaxCore)))) :
          p \in {"/credentials", "/credentials/BANK_ACCT", "/other"},
          a \in AuthHeaders \ {"Bearer secret"}}

\* POST requests with every kind of body, and to every other path
BodyRequests ==
  {Request("POST", "/credentials/BANK_ACCT", "Bearer secret", b) :
     b \in OtherBodies}
  \cup {Request("POST", p, "Bearer secret", ValueBody(JStr(Core(MaxCore)))) :
          p \in OtherPaths}

OtherRequests ==
  {Request(m, p, a, NoBody) :
     m \in {"PUT", "DELETE"},
     p \in {"/credentials/BANK_ACCT", "/other"},
     a \in {None, "Bearer secret"}}

Command(command, key, value, file, yes, typed) ==
  [command |-> command, key |-> key, value |-> value, file |-> file,
   yes |-> yes, typed |-> typed]

NoCommand == Command("<none>", None, None, None, FALSE, "")

StoreCommands ==
  {Command("store", k, v, None, FALSE, "") :
     k \in {"BANK_ACCT", "COMPANY_NAME", "UNKNOWN_KEY"},
     v \in {"", " 1 ", Core(MaxCore)}}
  \cup {Command("store", k, None, None, FALSE, t) :
          k \in {"BANK_ACCT", "COMPANY_NAME"}, t \in {"", " 1 "}}

GetCommands == {Command("get", k, None, None, FALSE, "") : k \in Accounts}

\* lines of a credentials file
FileLines ==
  { "COMPANY_NAME = \"\"\n",
    "BANK_ACCT='" \o Core(MaxCore) \o "'\n",
    "UNKNOWN_KEY = \"x\"\n" }

RECURSIVE FileTexts(_)
FileTexts(n) ==
  IF n = 0 THEN {""}
  ELSE FileTexts(n - 1) \cup {t \o l : t \in FileTexts(n - 1), l \in FileLines}

\* with --yes every file; at the prompt one file, confirmed or not
StoreFileCommands ==
  {Command("store-file", None, None, f, TRUE, "") :
     f \in FileTexts(MaxFileEntries) \cup {None}}
  \cup {Command("store-file", None, None,
                 "COMPANY_NAME = \"\"\nCOMPANY_NAME\t=\n\" 1 '\n", y, t) :
          y \in BOOLEAN, t \in {"Y", "y", "n", ""}}

(* --------------------------- state machine ---------------------------- *)

VARIABLES
  store,    \* the keychain entries of SERVICE_NAME: account -> value or None
  api_key,  \* CredentialServer.api_key
  req,      \* the HTTP request being answered, or NoRequest
  cmd,      \* the command line being run, or NoCommand
  resp,     \* the response to req
  proc,     \* how the process of cmd ended
  calls,    \* the OS calls of the operation, in order
  gets,     \* the get_from_keychain calls of the operation
  sets,     \* the store_in_keychain calls of the operation
  hist,     \* history: account -> the value of its last Set when that Set
            \* returned True (None when it returned False or raised)
  nsets,    \* store_in_keychain calls so far
  pending,  \* the store_in_keychain call under way, one OS call per step
  seen      \* what another process last got from get_from_keychain

vars ==
  <<store, api_key, req, cmd, resp, proc, calls, gets, sets, hist, nsets,
    pending, seen>>

\* no store_in_keychain call is under way; pc is the position in the call
NoPending ==
  [pc |-> "idle", account |-> None, password |-> None, before |-> <<>>,
   rc |-> 0, ok |-> FALSE, exc |-> ""]

NoSeen == [account |-> None, ret |-> None, held |-> None, during |-> NoPending]

NoResponse == Response(-1, "")

NoExit == Exit(-1, <<>>)

Idle == req = NoRequest /\ cmd = NoCommand

Init ==
  /\ store = [k \in Accounts |-> None]
  /\ api_key \in ApiKeys
  /\ req = NoRequest
  /\ cmd = NoCommand
  /\ resp = NoResponse
  /\ proc = NoExit
  /\ calls = <<>>
  /\ gets = <<>>
  /\ sets = <<>>
  /\ hist = [k \in Accounts |-> None]
  /\ nsets = 0
  /\ pending = NoPending
  /\ seen = NoSeen

\* the world an operation starts in
Start == [st |-> store, calls |-> <<>>, gets |-> <<>>, sets |-> <<>>]

RECURSIVE Record(_, _)
Record(h, log) ==
  IF Len(log) = 0 THEN h
  ELSE Record([h EXCEPT ![log[1].account] =
                  IF log[1].ok THEN log[1].password.s ELSE None],
              Tail(log))

\* the operation's effect on the keychain, and what it left in the logs
Effect(w) ==
  /\ nsets + Len(w.sets) <= MaxSets
  /\ store' = w.st
  /\ calls' = w.calls
  /\ gets' = w.gets
  /\ sets' = w.sets
  /\ hist' = Record(hist, w.sets)
  /\ nsets' = nsets + Len(w.sets)
  /\ UNCHANGED <<api_key, pending, seen>>

Http(r, plan) ==
  LET h == CredentialRequestHandler(Start, api_key, r, plan)
  IN  /\ Idle
      /\ req' = r
      /\ resp' = h.resp
      /\ Effect(h.w)
      /\ UNCHANGED <<cmd, proc>>

Cli(c, plan) ==
  LET m == main(Start, c, plan)
  IN  /\ Idle
      /\ cmd' = c
      /\ proc' = m.proc
      /\ Effect(m.w)
      /\ UNCHANGED <<req, resp>>

HttpGet == \E r \in GetRequests, plan \in FaultPlans : Http(r, plan)

HttpPost == \E r \in PostRequests, plan \in FaultPlans : Http(r, plan)

HttpAuth == \E r \in AuthRequests : Http(r, NoFault)

HttpBody == \E r \in BodyRequests : Http(r, NoFault)

HttpOther == \E r \in OtherRequests : Http(r, NoFault)

CliList == \E plan \in FaultPlans : Cli(Command("list", None, None, None, FALSE, ""), plan)

CliStore == \E c \in StoreCommands, plan \in FaultPlans : Cli(c, plan)

CliStoreFile == \E c \in StoreFileCommands, plan \in FaultPlans : Cli(c, plan)

CliGet == \E c \in GetCommands, plan \in FaultPlans : Cli(c, plan)

CliHelp == Cli(Command("", None, None, None, FALSE, ""), NoFault)

\* the handler has returned, or the process has exited: the next operation
Return ==
  /\ ~Idle
  /\ req' = NoRequest
  /\ cmd' = NoCommand
  /\ resp' = NoResponse
  /\ proc' = NoExit
  /\ calls' = <<>>
  /\ gets' = <<>>
  /\ sets' = <<>>
  /\ UNCHANGED <<store, api_key, hist, nsets, pending, seen>>

Next ==
  \/ HttpGet
  \/ HttpPost
  \/ HttpAuth
  \/ HttpBody
  \/ HttpOther
  \/ CliList
  \/ CliStore
  \/ CliStoreFile
  \/ CliGet
  \/ CliHelp
  \/ Return

Spec == Init /\ [][Next]_vars

(* ------------- store_in_keychain, one OS call at a time --------------- *)

(* The keychain is shared by every process of the user (CLI runs and the   *)
(* HTTP server): between the two subprocess.run calls of store_in_keychain *)
(* another process can run get_from_keychain, and the process can be       *)
(* killed. One process runs store_in_keychain step by step; another one    *)
(* runs get_from_keychain at any moment.                                   *)

\* the keys and values of the stepwise calls
SetKeys == {"BANK_ACCT", "COMPANY_NAME"}

SetValues == {" 1 ", Core(MaskKeep), Core(MaxCore)}

\* the outcomes of one OS call: see FaultPlans
Outcomes == {"ok", "error", "oserror"}

\* the HTTP and CLI state, untouched by the stepwise calls
Quiet == UNCHANGED <<api_key, req, cmd, resp, proc, gets, sets, hist>>

\* store_in_keychain(SERVICE_NAME, k, v) is entered
SetCall ==
  \E k \in SetKeys, v \in SetValues :
    /\ Idle
    /\ pending.pc = "idle"
    /\ nsets < MaxSets
    /\ pending' = [NoPending EXCEPT !.pc = "delete", !.account = k,
                                    !.password = v, !.before = store]
    /\ calls' = <<>>
    /\ nsets' = nsets + 1
    /\ UNCHANGED <<store, seen>>
    /\ Quiet

\* the delete call: its return code is ignored, an OSError is raised
SetDelete ==
  \E fault \in Outcomes :
    LET d == SecurityDelete(store, pending.account, fault)
    IN  /\ pending.pc = "delete"
        /\ store' = d.st
        /\ calls' = Append(calls,
                       OsCall("delete", SERVICE_NAME, pending.account, None, d.rc))
        /\ pending' =
             IF d.rc = -1
             THEN [pending EXCEPT !.pc = "done", !.rc = d.rc, !.exc = "OSError"]
             ELSE [pending EXCEPT !.pc = "add", !.rc = d.rc]
        /\ UNCHANGED <<nsets, seen>>
        /\ Quiet

\* the add call: True when it returns 0, False on CalledProcessError
SetAdd ==
  \E fault \in Outcomes :
    LET argerr == ArgError(JStr(pending.password))
        a == SecurityAdd(store, pending.account, pending.password, fault)
    IN  /\ pending.pc = "add"
        /\ IF argerr # ""
           THEN /\ pending' = [pending EXCEPT !.pc = "done", !.exc = argerr]
                /\ UNCHANGED <<store, calls>>
           ELSE /\ store' = a.st
                /\ calls' = Append(calls,
                       OsCall("add", SERVICE_NAME, pending.account,
                              pending.password, a.rc))
                /\ pending' =
                     [pending EXCEPT !.pc = "done", !.ok = (a.rc = 0),
                        !.exc = IF a.rc = -1 THEN "OSError" ELSE ""]
        /\ UNCHANGED <<nsets, seen>>
        /\ Quiet

\* the process is killed between the delete call and the add call
Interrupt ==
  /\ pending.pc = "add"
  /\ pending' = [pending EXCEPT !.pc = "killed"]
  /\ UNCHANGED <<store, calls, nsets, seen>>
  /\ Quiet

\* store_in_keychain has returned or raised, or its process is gone
SetReturn ==
  /\ pending.pc \in {"done", "killed"}
  /\ pending' = NoPending
  /\ calls' = <<>>
  /\ UNCHANGED <<store, nsets, seen>>
  /\ Quiet

\* another process runs get_from_keychain(SERVICE_NAME, k)
OtherGet ==
  \E k \in SetKeys :
    LET g == get_from_keychain(Start, SERVICE_NAME, k, NoFault)
    IN  /\ Idle
        /\ seen' = [account |-> k, ret |-> g.ret, held |-> store[k],
                    during |-> pending]
        /\ UNCHANGED <<store, calls, nsets, pending>>
        /\ Quiet

Steps ==
  \/ SetCall
  \/ SetDelete
  \/ SetAdd
  \/ Interrupt
  \/ SetReturn
  \/ OtherGet

Interleaved == Init /\ [][Steps]_vars

(* ------------------------------ claims -------------------------------- *)

\* the request carries the server's token
Authenticated == req.auth # None /\ req.auth = "Bearer " \o api_key

\* the OS calls that write: delete and add
Writes == {i \in 1..Len(calls) : calls[i].cmd \in {"delete", "add"}}

(* C1: a GET or POST request without the server's token in a Bearer        *)
(* Authorization header is answered 401 {"error": "Invalid API key"} and   *)
(* makes no OS call; a request with the token is never answered 401.       *)
C1_Claim ==
  req.method \in {"GET", "POST"} =>
    IF Authenticated
    THEN resp.status # 401
    ELSE /\ resp.status = 401
         /\ resp.error = "Invalid API key"
         /\ calls = <<>>

(* C2: a Get of a key whose last Set returned success returns the value of *)
(* that Set, unless the find call itself failed.                           *)
C2_Claim ==
  \A i \in 1..Len(gets) :
    (gets[i].rc = 0 /\ hist[gets[i].account] # None)
      => gets[i].ret = hist[gets[i].account]

\* the text of a credentials file names a key of ORG_KEYS (in the files of
\* StoreFileCommands a key appears only as the name of an assignment)
NamesKnownKey(text) == \E k \in OrgKeySet : Contains(text, k)

(* C3: no OS call names an account outside ORG_KEYS; an HTTP GET or POST   *)
(* of /credentials/{key}, a CLI store and a CLI get with a key outside     *)
(* ORG_KEYS end in an error without any OS call, and a credentials file    *)
(* with no name of ORG_KEYS ends in an error without any OS call.          *)
C3_UnknownKeyFailsFast ==
  /\ \A i \in 1..Len(calls) : calls[i].account \in OrgKeySet
  /\ \A k \in UnknownKeys :
       /\ (Authenticated /\ req.path = "/credentials/" \o k /\ req.method = "GET")
            => (resp.status = 404 /\ resp.error = "Unknown key: " \o k /\ calls = <<>>)
       /\ (Authenticated /\ req.path = "/credentials/" \o k /\ req.method = "POST")
            => (resp.status = 400 /\ resp.error = "Unknown key: " \o k /\ calls = <<>>)
       /\ (cmd.command \in {"store", "get"} /\ cmd.key = k)
            => (proc.exit \in {1, 2} /\ calls = <<>>)
  /\ (cmd.command = "store-file" /\ ~NamesKnownKey(cmd.file))
       => (proc.exit = 1 /\ calls = <<>>)

\* a file with a known and an unknown name was imported: only the known one
\* reached the keychain
C3_Witness ==
  /\ cmd.command = "store-file"
  /\ cmd.file = "BANK_ACCT='" \o Core(MaxCore) \o "'\nUNKNOWN_KEY = \"x\"\n"
  /\ Len(calls) = 2
  /\ store["BANK_ACCT"] = Core(MaxCore)
  /\ store["UNKNOWN_KEY"] = None

(* C4: store_in_keychain is never called with an empty value, so no add    *)
(* call carries the empty string.                                          *)
C4_Claim ==
  /\ \A i \in 1..Len(sets) : sets[i].password # JStr("")
  /\ \A i \in 1..Len(calls) : calls[i].cmd = "add" => calls[i].password # ""

\* the keys the masking policy treats as sensitive: tax-ID, bank, account
\* and routing indicators
SensitiveKeys == {"COMPANY_OWNER_SSN", "BANK_ACCT", "BANK_ROUTING", "COMPANY_EIN"}

\* Mask(key, value) of the masking policy
Mask(key, value) ==
  IF key \notin SensitiveKeys THEN value
  ELSE IF Len(value) <= 4 THEN Stars(Len(value))
  ELSE Stars(Len(value) - 4) \o SubSeq(value, Len(value) - 3, Len(value))

(* C5: an authenticated GET /credentials/{key} makes no write; it answers  *)
(* 404 "Unknown key" for a key outside ORG_KEYS, 404 "No value found" when *)
(* Get reports the key absent, and otherwise 200 with the key, the value   *)
(* stored in the keychain and its mask.                                    *)
C5_Claim ==
  \A k \in Accounts :
    (Authenticated /\ req.method = "GET" /\ req.path = "/credentials/" \o k) =>
      /\ Writes = {}
      /\ IF k \notin OrgKeySet
         THEN resp.status = 404 /\ resp.error = "Unknown key: " \o k
         ELSE /\ Len(gets) = 1
              /\ IF gets[1].ret = None
                 THEN /\ resp.status = 404
                      /\ resp.error = "No value found for key: " \o k
                 ELSE /\ resp.status = 200
                      /\ resp.key = k
                      /\ resp.value = store[k]
                      /\ resp.masked_value = Mask(k, resp.value)

\* the member "value" of a JSON object
Member(json) ==
  json.f[CHOOSE i \in 1..Len(json.f) : json.f[i][1] = "value"][2]

(* C6: an authenticated POST /credentials/{key} is answered 400 for an     *)
(* unknown key, else 400 "Invalid JSON body" for an unparsable body, else  *)
(* 400 "Missing required field: value" for a body without a value member   *)
(* (no body, {} or JSON that is no object), else 400 for an empty value;   *)
(* otherwise Set is called once and the answer is 200 with the message and *)
(* the mask when it succeeds and 500 when it fails. No other branch calls  *)
(* Set.                                                                    *)
C6_Claim ==
  \A k \in Accounts :
    (Authenticated /\ req.method = "POST" /\ req.path = "/credentials/" \o k) =>
      LET b == req.body
          hasValue ==
            /\ b.kind = "json"
            /\ b.json.t = "dict"
            /\ \E i \in 1..Len(b.json.f) : b.json.f[i][1] = "value"
          v == Member(b.json)
      IN  IF k \notin OrgKeySet
          THEN resp.status = 400 /\ sets = <<>>
          ELSE IF b.kind \in {"badjson", "notutf8", "badlen"}
          THEN /\ resp.status = 400
               /\ b.kind = "badjson" => resp.error = "Invalid JSON body"
               /\ sets = <<>>
          ELSE IF ~hasValue
          THEN /\ resp.status = 400
               /\ resp.error = "Missing required field: value"
               /\ sets = <<>>
          ELSE IF v = JStr("") \/ (v.t # "str" /\ ~Truthy(v))
          THEN resp.status = 400 /\ sets = <<>>
          ELSE /\ Len(sets) = 1
               /\ IF sets[1].ok
                  THEN /\ resp.status = 200
                       /\ resp.message = "Successfully stored " \o k \o " in Keychain"
                       /\ resp.masked_value = Mask(k, v.s)
                  ELSE resp.status = 500

\* the pairs of a dict kept as a sequence
Pairs(d) == {d[i] : i \in 1..Len(d)}

(* C7: an authenticated GET /credentials answers 200 with the service      *)
(* name, the full key list, and a mapping that holds exactly the keys for  *)
(* which Get is not absent, each with the mask of its value.               *)
C7_Claim ==
  (Authenticated /\ req.method = "GET" /\ req.path = "/credentials") =>
    /\ resp.status = 200
    /\ resp.service = SERVICE_NAME
    /\ resp.available_keys = ORG_KEYS
    /\ {gets[i].account : i \in 1..Len(gets)} = OrgKeySet
    /\ Pairs(resp.credentials) =
         { <<gets[i].account, Mask(gets[i].account, gets[i].ret)>> :
             i \in {j \in 1..Len(gets) : gets[j].ret # None} }

\* the three endpoints
KnownEndpoint ==
  \/ req.method = "GET" /\ req.path \in {"/credentials", "/credentials/", "/credentials?x=1"}
  \/ req.method \in {"GET", "POST"} /\ req.path \in KeyPaths

(* C8: an authenticated request to anything but the three endpoints, with  *)
(* any method, is answered 404 {"error": "Unknown endpoint"}.              *)
C8_Claim ==
  (Authenticated /\ ~KnownEndpoint) =>
    (resp.status = 404 /\ resp.error = "Unknown endpoint")

Printed(line) == \E i \in 1..Len(proc.printed) : proc.printed[i] = line

(* C9: a command exits with 1 when a validation or a store operation       *)
(* failed and with 0 otherwise: store with an unknown key, an empty value  *)
(* or a failed Set, get of an absent key, store-file of a missing file or  *)
(* of a file with no known key, and store-file with a failed Set (which    *)
(* still prints the overall warning) exit with 1.                          *)
C9_Claim ==
  cmd # NoCommand =>
    LET failedSet == \E i \in 1..Len(sets) : ~sets[i].ok
        entered == IF cmd.value = None THEN cmd.typed ELSE cmd.value
        failure ==
          CASE cmd.command = "store" ->
                 cmd.key \notin OrgKeySet \/ entered = "" \/ failedSet
            [] cmd.command = "get" ->
                 cmd.key \notin OrgKeySet \/ (Len(gets) = 1 /\ gets[1].ret = None)
            [] cmd.command = "store-file" ->
                 cmd.file = None \/ ~NamesKnownKey(cmd.file) \/ failedSet
            [] OTHER -> FALSE
    IN  /\ proc.exit = (IF failure THEN 1 ELSE 0)
        /\ (cmd.command = "store-file" /\ failedSet /\ proc.exc = "")
             => Printed("Some credentials could not be stored.")

(* C10: every Set makes exactly one delete call and then exactly one add   *)
(* call for its account, returns a boolean without raising, and returns    *)
(* success exactly when the add call succeeded.                            *)
C10_Claim ==
  \A i \in 1..Len(sets) :
    LET cs == SubSeq(calls, sets[i].from, sets[i].to)
    IN  /\ Len(cs) = 2
        /\ cs[1].cmd = "delete" /\ cs[1].account = sets[i].account
        /\ cs[2].cmd = "add" /\ cs[2].account = sets[i].account
        /\ cs[2].password = sets[i].password.s
        /\ sets[i].exc = ""
        /\ sets[i].ok <=> (cs[2].rc = 0)

\* the delete call of the stepwise Set p ran and did not fail: the entry
\* was removed (0) or there was none (44)
Removed(p) == p.pc \in {"add", "killed", "done"} /\ p.rc \in {0, 44}

\* p is between its delete call and its add call, or was killed there
InWindow(p) == p.pc \in {"add", "killed"}

\* the add call of p was attempted and did not succeed
AddFailed(p) == p.pc = "done" /\ ~p.ok /\ p.rc # -1

(* C11: in a Set of v2 on a key holding v1, between the remove step and    *)
(* the add step the entry does not exist and a Get by another process      *)
(* returns absent; when the Set is killed there or its add step fails the  *)
(* key stays absent; at every other moment of the Set a Get returns v1 or  *)
(* v2 (v1 before the remove step, v2 after a successful add step); the     *)
(* entries of other keys do not change during the Set.                     *)
C11_Claim ==
  /\ (Removed(pending) /\ (InWindow(pending) \/ AddFailed(pending)))
       => store[pending.account] = None
  /\ pending.pc # "idle" =>
       \A k \in Accounts \ {pending.account} : store[k] = pending.before[k]
  /\ LET p == seen.during
         v1 == p.before[seen.account]
         v2 == p.password
     IN  (p.pc # "idle" /\ p.account = seen.account) =>
           IF Removed(p) /\ (InWindow(p) \/ AddFailed(p))
           THEN seen.ret = None
           ELSE IF p.pc = "delete" THEN seen.ret = v1
           ELSE IF p.pc = "done" /\ p.ok THEN seen.ret = v2
           ELSE seen.ret \in {v1, v2}

====
